---- MODULE Spec2Model ----
(***************************************************************************)
(* GenPass: a terminal password generator (src/src/main.rs).               *)
(*                                                                         *)
(* Characters are code points (naturals); a String is a sequence of code   *)
(* points and a Vec<u8> a sequence of bytes.  The random source is the      *)
(* rand crate: a deterministic stream per seed, modelled by a small linear *)
(* congruential generator whose seeds are drawn from a bounded set.        *)
(***************************************************************************)
EXTENDS Integers, Sequences, FiniteSets, TLC

VARIABLES
    pc,            \* position of the process in main / run_app
    letters,       \* App.letters
    uppercase,     \* App.uppercase
    symbols,       \* App.symbols
    numbers,       \* App.numbers
    focus,         \* App.focus
    password,      \* App.password
    strength,      \* App.strength
    status,        \* App.status
    status_until,  \* App.status_until (None or an Instant)
    ev,            \* the event read in the current turn of the loop
    clip,          \* the last value returned by copy_to_clipboard
    clip_arg,      \* the last string handed to copy_to_clipboard
    frame,         \* what the last terminal.draw painted
    now,           \* the monotonic clock read by Instant::now()
    term,          \* terminal mode: raw mode, alternate screen, cursor
    result,        \* what run_app returned
    exit_code,     \* what main returned
    events,        \* number of input events read since the initial state
    attempted      \* the restoration calls main has made

vars == <<pc, letters, uppercase, symbols, numbers, focus, password, strength,
          status, status_until, ev, clip, clip_arg, frame, now, term, result,
          exit_code, events, attempted>>

app == <<letters, uppercase, symbols, numbers, focus, password, strength,
         status, status_until>>

-----------------------------------------------------------------------------
(* Bounds of the model *)

\* seeds of the random source are 0 .. MaxSeed
MaxSeed == 1
\* the clock runs from 0 to MaxTime seconds
MaxTime == 2
\* a session reads at most MaxEvents input events
MaxEvents == 2
\* the generator is applied to counts 0 .. MaxCount per category
MaxCount == 8
\* strings scored for strength: up to MaxCore sample characters
MaxCore == 3
\* ... followed by up to MaxPad copies of a filler character
MaxPad == 10

-----------------------------------------------------------------------------
(* Program constants *)

LETTERS == <<97, 98, 99, 100, 101, 102, 103, 104, 105, 106, 107, 108, 109,
             110, 111, 112, 113, 114, 115, 116, 117, 118, 119, 120, 121, 122>>
NUMBERS == <<48, 49, 50, 51, 52, 53, 54, 55, 56, 57>>
SYMBOLS == <<33, 35, 36, 37, 38, 40, 41, 42, 43>>
DEFAULT_LETTERS == 6
DEFAULT_UPPERCASE == 2
DEFAULT_SYMBOLS == 2
DEFAULT_NUMBERS == 4
MIN_VALUE == 0
MAX_VALUE == 64
CLIPBOARD_MESSAGE_DURATION == 2
FOCUS_FIELDS == 4
FOCUS_GENERATE == 4
FOCUS_COPY == 5
FOCUS_QUIT == 6

\* Option<T>: None, or Some(x) with x = Some(x)[1]
None == <<>>
Some(x) == <<x>>
NoEvent == [type |-> "NoEvent", code |-> "", modifiers |-> "NONE", kind |-> ""]

-----------------------------------------------------------------------------
(* Character and string primitives of the standard library *)

Range(s) == {s[i] : i \in 1..Len(s)}

is_ascii_uppercase(ch) == ch >= 65 /\ ch <= 90
is_ascii_lowercase(ch) == ch >= 97 /\ ch <= 122
is_ascii_digit(ch) == ch >= 48 /\ ch <= 57

\* to_ascii_uppercase left out: the byte as drawn
to_ascii_uppercase_omitted(b) == b

\* u8::to_ascii_uppercase
to_ascii_uppercase(b) == IF is_ascii_lowercase(b) THEN b - 32 ELSE b

\* `ch as u8`: a char cast to u8 keeps the low eight bits of the code point
as_u8(ch) == ch % 256

\* number of bytes of a char in UTF-8
len_utf8(ch) ==
    IF ch < 128 THEN 1 ELSE IF ch < 2048 THEN 2 ELSE IF ch < 65536 THEN 3 ELSE 4

RECURSIVE bytes_between(_, _, _)
\* the number of UTF-8 bytes of the chars s[lo] .. s[hi]
bytes_between(s, lo, hi) ==
    IF hi < lo THEN 0
    ELSE IF hi = lo THEN len_utf8(s[lo])
    ELSE LET mid == (lo + hi) \div 2
         IN bytes_between(s, lo, mid) + bytes_between(s, mid + 1, hi)

\* str::len: the length of a string in bytes
str_len(s) == bytes_between(s, 1, Len(s))

\* String::from_utf8(bytes).unwrap_or_default(): bytes below 128 are each one
\* char; a byte sequence that is not UTF-8 gives the empty string (the three
\* alphabets only hold bytes below 128, so multi-byte sequences do not occur)
from_utf8_or_default(bytes) ==
    IF \A i \in 1..Len(bytes) : bytes[i] < 128 THEN bytes ELSE <<>>

-----------------------------------------------------------------------------
(* The random source *)

Seeds == 0..MaxSeed

\* the generator state a seed starts from
seed_from(seed) == (seed * 7919 + 12345) % 65537

\* one step of the generator
rng_next(s) == (s * 75 + 74) % 65537

\* slice.choose(rng): a uniformly drawn element of a non-empty slice
choose(slice, s) == slice[(rng_next(s) % Len(slice)) + 1]

\* statements run in order: the value of rest, once first has been computed
\* (the same value as rest; it only keeps the evaluation stack shallow)
after(first, rest) == IF first = first THEN rest ELSE rest

\* a swap that writes one of the two elements only
swap_one_way(v, i, j) == [v EXCEPT ![i] = v[j]]

swap(v, i, j) == [v EXCEPT ![i] = v[j], ![j] = v[i]]

\* one turn of the Fisher-Yates loop: swap index i (0-based) with a uniformly
\* drawn index of 0..=i
shuffle_step(v, i, s) ==
    LET s2 == rng_next(s)
        j == s2 % (i + 1)
    IN [out |-> swap(v, i + 1, j + 1), rng |-> s2]

RECURSIVE shuffle_loop(_, _, _, _)
\* the turns i = hi, hi - 1, .. lo of the loop, in that order (the upper half
\* of the turns, then the lower half on what they leave)
shuffle_loop(v, hi, lo, s) ==
    IF hi < lo THEN [out |-> v, rng |-> s]
    ELSE IF hi = lo THEN shuffle_step(v, hi, s)
    ELSE LET mid == (hi + lo) \div 2
             upper == shuffle_loop(v, hi, mid + 1, s)
         IN after(upper, shuffle_loop(upper.out, mid, lo, upper.rng))

\* slice.shuffle(rng): `for i in (1..len).rev()`
shuffle(v, s) == shuffle_loop(v, Len(v) - 1, 1, s).out

-----------------------------------------------------------------------------
(* check_password_strength *)

length_criteria(pw) == str_len(pw) >= 10
uppercase_criteria(pw) == \E i \in 1..Len(pw) : is_ascii_uppercase(pw[i])
lowercase_criteria(pw) == \E i \in 1..Len(pw) : is_ascii_lowercase(pw[i])
number_criteria(pw) == \E i \in 1..Len(pw) : is_ascii_digit(pw[i])
symbol_criteria(pw) == \E i \in 1..Len(pw) : as_u8(pw[i]) \in Range(SYMBOLS)

B2N(b) == IF b THEN 1 ELSE 0

criteria_met(pw) ==
    B2N(length_criteria(pw)) + B2N(uppercase_criteria(pw))
    + B2N(lowercase_criteria(pw)) + B2N(number_criteria(pw))
    + B2N(symbol_criteria(pw))

check_password_strength(pw) ==
    IF criteria_met(pw) = 5 THEN "Strong"
    ELSE IF criteria_met(pw) >= 4 THEN "Moderate"
    ELSE IF criteria_met(pw) >= 3 THEN "Weak"
    ELSE "Do not use!!!!"

-----------------------------------------------------------------------------
(* generate_password *)

\* one turn of a `for _ in 0..n` loop: push one draw from the alphabet,
\* upper-cased when up
draw_step(alphabet, up, generated, s) ==
    LET b == choose(alphabet, s)
    IN [out |-> Append(generated, IF up THEN to_ascii_uppercase(b) ELSE b),
        rng |-> rng_next(s)]

RECURSIVE draw(_, _, _, _, _)
\* a whole `for _ in 0..n` loop (no turn when n <= 0): the first half of the
\* turns, then the others on what they leave; yields the vector and the
\* generator state
draw(alphabet, n, up, generated, s) ==
    IF n <= 0 THEN [out |-> generated, rng |-> s]
    ELSE IF n = 1 THEN draw_step(alphabet, up, generated, s)
    ELSE LET first == draw(alphabet, n \div 2, up, generated, s)
         IN after(first, draw(alphabet, n - n \div 2, up, first.out, first.rng))

\* the four loops of generate_password: the Vec<u8> before the shuffle
generated_bytes(l, u, sy, n, s) ==
    LET g1 == draw(LETTERS, l, FALSE, <<>>, s)
        g2 == draw(LETTERS, u, TRUE, g1.out, g1.rng)
        g3 == draw(SYMBOLS, sy, FALSE, g2.out, g2.rng)
    IN draw(NUMBERS, n, FALSE, g3.out, g3.rng)

\* generate_password whose symbols loop runs `numbers` times
generate_password_wrong_bound(l, u, sy, n, s) ==
    LET g1 == draw(LETTERS, l, FALSE, <<>>, s)
        g2 == draw(LETTERS, u, TRUE, g1.out, g1.rng)
        g3 == draw(SYMBOLS, n, FALSE, g2.out, g2.rng)
        g4 == draw(NUMBERS, n, FALSE, g3.out, g3.rng)
    IN from_utf8_or_default(shuffle(g4.out, g4.rng))

generate_password(l, u, sy, n, s) ==
    LET g == generated_bytes(l, u, sy, n, s)
    IN from_utf8_or_default(shuffle(g.out, g.rng))

-----------------------------------------------------------------------------
(* App *)

\* App::generate_password that leaves the strength of the old password
App_generate_password_stale_strength(l, u, sy, n, seed) ==
    /\ password' = generate_password(l, u, sy, n, seed_from(seed))
    /\ strength' = strength

\* App::generate_password that does nothing
App_generate_password_skipped(l, u, sy, n, seed) ==
    UNCHANGED <<password, strength>>

\* App::generate_password that scores the password it is about to replace
App_generate_password_scoring_old(l, u, sy, n, seed) ==
    /\ password' = generate_password(l, u, sy, n, seed_from(seed))
    /\ strength' = check_password_strength(password)

\* App::generate_password on an App whose counts are l, u, sy, n, with the
\* thread-local generator of rng() seeded by seed
App_generate_password(l, u, sy, n, seed) ==
    LET pw == generate_password(l, u, sy, n, seed_from(seed))
    IN /\ password' = pw
       /\ strength' = check_password_strength(pw)

\* clamp_value without its upper bound
clamp_value_no_max(value) == IF value < MIN_VALUE THEN MIN_VALUE ELSE value

clamp_value(value) ==
    IF value < MIN_VALUE THEN MIN_VALUE
    ELSE IF value > MAX_VALUE THEN MAX_VALUE
    ELSE value

\* update_value with the arms of fields 0 and 1 exchanged
update_value_wrong_arm(delta) ==
    /\ letters' = IF focus = 1 THEN clamp_value(letters + delta) ELSE letters
    /\ uppercase' = IF focus = 0 THEN clamp_value(uppercase + delta) ELSE uppercase
    /\ symbols' = IF focus = 2 THEN clamp_value(symbols + delta) ELSE symbols
    /\ numbers' = IF focus = 3 THEN clamp_value(numbers + delta) ELSE numbers

update_value(delta) ==
    /\ letters' = IF focus = 0 THEN clamp_value(letters + delta) ELSE letters
    /\ uppercase' = IF focus = 1 THEN clamp_value(uppercase + delta) ELSE uppercase
    /\ symbols' = IF focus = 2 THEN clamp_value(symbols + delta) ELSE symbols
    /\ numbers' = IF focus = 3 THEN clamp_value(numbers + delta) ELSE numbers

\* the expiry test with > for >=
status_expired_strict == status_until # None /\ now > status_until[1]

\* the condition under which clear_status_if_expired clears
status_expired == status_until # None /\ now >= status_until[1]

\* clear_status_if_expired that leaves the expiry of the status it clears
clear_status_if_expired_keeps_expiry ==
    IF status_expired
    THEN status' = "" /\ UNCHANGED status_until
    ELSE UNCHANGED <<status, status_until>>

\* clear_status_if_expired that never clears
clear_status_if_expired_never == UNCHANGED <<status, status_until>>

clear_status_if_expired ==
    IF status_expired
    THEN status' = "" /\ status_until' = None
    ELSE UNCHANGED <<status, status_until>>

\* what ui() paints of an App
Snapshot(l, u, sy, n, f, pw, st, msg) ==
    [letters |-> l, uppercase |-> u, symbols |-> sy, numbers |-> n,
     focus |-> f, password |-> pw, strength |-> st, status |-> msg]

NoFrame == [letters |-> 0, uppercase |-> 0, symbols |-> 0, numbers |-> 0,
            focus |-> 0, password |-> <<>>, strength |-> "", status |-> "none"]

-----------------------------------------------------------------------------
(* Input events *)

KeyCodes == {"q", "Esc", "Up", "k", "Down", "j", "Left", "-", "h", "Right",
             "+", "=", "l", "g", "Enter", "c", "C", "r", "x"}

\* every key pressed without a modifier
PlainPresses ==
    [type : {"Key"}, code : KeyCodes, modifiers : {"NONE"}, kind : {"Press"}]
\* presses with modifiers held
ModifiedPresses ==
    [type : {"Key"}, code : {"r"}, modifiers : {"CONTROL", "CONTROL|SHIFT"},
     kind : {"Press"}]
    \cup [type : {"Key"}, code : {"q", "c"}, modifiers : {"CONTROL"},
          kind : {"Press"}]
\* key events whose kind is not KeyEventKind::Press
NonPresses ==
    [type : {"Key"}, code : {"q", "Esc", "c", "Enter"}, modifiers : {"NONE"},
     kind : {"Release"}]
    \cup [type : {"Key"}, code : {"q"}, modifiers : {"NONE"}, kind : {"Repeat"}]
KeyEvents == PlainPresses \cup ModifiedPresses \cup NonPresses
\* Event::Resize, Event::Mouse, ...: any event that is not Event::Key
OtherEvents == {[type |-> "Resize", code |-> "", modifiers |-> "NONE", kind |-> ""]}
InputEvents == KeyEvents \cup OtherEvents

\* the test without `kind != KeyEventKind::Press => continue`
IsPress_any_kind(e) == e.type = "Key"

IsPress(e) == e.type = "Key" /\ e.kind = "Press"

-----------------------------------------------------------------------------
(* main: terminal setup *)

InitTerm == [raw |-> FALSE, alt |-> FALSE, cursor |-> TRUE]

Init ==
    /\ pc = "enable_raw"
    /\ letters = 0 /\ uppercase = 0 /\ symbols = 0 /\ numbers = 0
    /\ focus = 0
    /\ password = <<>>
    /\ strength = ""
    /\ status = ""
    /\ status_until = None
    /\ ev = NoEvent
    /\ clip = None
    /\ clip_arg = None
    /\ frame = NoFrame
    /\ now = 0
    /\ term = InitTerm
    /\ result = "None"
    /\ exit_code = None
    /\ events = 0
    /\ attempted = {}

\* main returns Err from a `?`: the process exits with a non-zero code
MainErr ==
    /\ pc' = "exit"
    /\ exit_code' = Some(1)

\* enable_raw_mode()?
EnableRawMode ==
    /\ pc = "enable_raw"
    /\ \/ /\ term' = [term EXCEPT !.raw = TRUE]
          /\ pc' = "enter_alt"
          /\ UNCHANGED exit_code
       \/ MainErr /\ UNCHANGED term
    /\ UNCHANGED <<app, ev, clip, clip_arg, frame, now, result, events,
                   attempted>>

\* execute!(stdout, EnterAlternateScreen)?
EnterAlternateScreen ==
    /\ pc = "enter_alt"
    /\ \/ /\ term' = [term EXCEPT !.alt = TRUE]
          /\ pc' = "terminal_new"
          /\ UNCHANGED exit_code
       \/ MainErr /\ UNCHANGED term
    /\ UNCHANGED <<app, ev, clip, clip_arg, frame, now, result, events,
                   attempted>>

\* Terminal::new(backend)?
TerminalNew ==
    /\ pc = "terminal_new"
    /\ \/ pc' = "app_new" /\ UNCHANGED exit_code
       \/ MainErr
    /\ UNCHANGED <<app, ev, clip, clip_arg, frame, now, term, result, events,
                   attempted>>

\* App::new() at the head of run_app
AppNew ==
    /\ pc = "app_new"
    /\ letters' = DEFAULT_LETTERS
    /\ uppercase' = DEFAULT_UPPERCASE
    /\ symbols' = DEFAULT_SYMBOLS
    /\ numbers' = DEFAULT_NUMBERS
    /\ focus' = 0
    /\ status' = ""
    /\ status_until' = None
    /\ \E seed \in Seeds :
          App_generate_password(letters', uppercase', symbols', numbers', seed)
    /\ pc' = "draw"
    /\ UNCHANGED <<ev, clip, clip_arg, frame, now, term, result, exit_code,
                   events, attempted>>

-----------------------------------------------------------------------------
(* run_app: the loop *)

\* run_app returns r: its locals code, modifiers, kind go out of scope and
\* main goes on to restore the terminal
Return(r) ==
    /\ result' = r
    /\ ev' = NoEvent
    /\ pc' = "disable_raw"

\* the loop goes on with the event it holds
Stay(next) ==
    /\ pc' = next
    /\ UNCHANGED <<ev, result>>

\* terminal.draw(|frame| ui(frame, &app))? at the head of the loop
Draw ==
    /\ pc = "draw"
    /\ \/ /\ frame' = Snapshot(letters, uppercase, symbols, numbers, focus,
                               password, strength, status)
          /\ term' = [term EXCEPT !.cursor = FALSE]
          /\ pc' = "clear"
          /\ ev' = NoEvent
          /\ UNCHANGED result
       \/ Return("Err") /\ UNCHANGED <<frame, term>>
    /\ UNCHANGED <<app, clip, clip_arg, now, exit_code, events, attempted>>

\* app.clear_status_if_expired()
ClearStatus ==
    /\ pc = "clear"
    /\ clear_status_if_expired
    /\ pc' = "poll"
    /\ UNCHANGED <<letters, uppercase, symbols, numbers, focus, password,
                   strength, ev, clip, clip_arg, frame, now, term, result,
                   exit_code, events, attempted>>

\* event::poll(50 ms)? returns Ok(false): no event within the timeout
PollTimeout ==
    /\ pc = "poll"
    /\ pc' = "draw"
    /\ UNCHANGED <<app, ev, clip, clip_arg, frame, now, term, result,
                   exit_code, events, attempted>>

\* event::poll(..)? or event::read()? returns Err
PollErr ==
    /\ pc = "poll"
    /\ Return("Err")
    /\ UNCHANGED <<app, clip, clip_arg, frame, now, term, exit_code, events,
                   attempted>>

\* event::poll(..)? returns Ok(true) and event::read()? returns an event
ReadEvent ==
    /\ pc = "poll"
    /\ events < MaxEvents
    /\ \E e \in InputEvents : ev' = e
    /\ events' = events + 1
    /\ pc' = "handle"
    /\ UNCHANGED <<app, clip, clip_arg, frame, now, term, result, exit_code,
                   attempted>>

\* the clock advances while the loop waits in terminal.draw or event::poll
Tick ==
    /\ pc \in {"draw", "poll"}
    /\ now < MaxTime
    /\ now' = now + 1
    /\ UNCHANGED <<pc, app, ev, clip, clip_arg, frame, term, result,
                   exit_code, events, attempted>>

\* the handler is done: back to the head of the loop
Continue ==
    /\ Stay("draw")
    /\ UNCHANGED <<now, term, exit_code, events, attempted>>

\* `return Ok(())` from a handler
Quit ==
    /\ Return("Ok")
    /\ UNCHANGED <<app, clip, clip_arg, frame, now, term, exit_code, events,
                   attempted>>

\* terminal.draw(..)? at the end of a handler, painting the state just written
Redraw ==
    \/ /\ frame' = Snapshot(letters', uppercase', symbols', numbers', focus',
                            password', strength', status')
       /\ Stay("draw")
    \/ Return("Err") /\ UNCHANGED frame

\* an event that is not Event::Key
NonKeyEvent ==
    /\ pc = "handle"
    /\ ev.type # "Key"
    /\ Continue
    /\ UNCHANGED <<app, clip, clip_arg, frame>>

\* kind != KeyEventKind::Press: continue
NotPress ==
    /\ pc = "handle"
    /\ ev.type = "Key" /\ ev.kind # "Press"
    /\ Continue
    /\ UNCHANGED <<app, clip, clip_arg, frame>>

-----------------------------------------------------------------------------
(* run_app: the match on (code, modifiers) of a pressed key *)

\* the quit arm without KeyCode::Esc
IsQuitKey_no_esc(e) == IsPress(e) /\ e.code \in {"q"}
\* the copy arm without KeyCode::Char('C')
IsCopyKey_lower_only(e) == IsPress(e) /\ e.code \in {"c"}

IsQuitKey(e) == IsPress(e) /\ e.code \in {"q", "Esc"}
IsUpKey(e) == IsPress(e) /\ e.code \in {"Up", "k"}
IsDownKey(e) == IsPress(e) /\ e.code \in {"Down", "j"}
IsLeftKey(e) == IsPress(e) /\ e.code \in {"Left", "-", "h"}
IsRightKey(e) == IsPress(e) /\ e.code \in {"Right", "+", "=", "l"}
IsGenerateKey(e) == IsPress(e) /\ e.code \in {"g", "Enter"}
IsCopyKey(e) == IsPress(e) /\ e.code \in {"c", "C"}
IsCtrlR(e) == IsPress(e) /\ e.code = "r" /\ e.modifiers = "CONTROL"
IsListedKey(e) ==
    \/ IsQuitKey(e) \/ IsUpKey(e) \/ IsDownKey(e) \/ IsLeftKey(e)
    \/ IsRightKey(e) \/ IsGenerateKey(e) \/ IsCopyKey(e) \/ IsCtrlR(e)

\* usize::saturating_sub(1)
saturating_sub1(x) == IF x = 0 THEN 0 ELSE x - 1

\* focus + 1 without .min(FOCUS_QUIT)
focus_down_no_min(x) == x + 1

\* (x + 1).min(FOCUS_QUIT)
focus_down(x) == IF x + 1 < FOCUS_QUIT THEN x + 1 ELSE FOCUS_QUIT

\* (KeyCode::Char('q'), _) | (KeyCode::Esc, _) => return Ok(())
KeyQuit ==
    /\ pc = "handle"
    /\ IsQuitKey(ev)
    /\ Quit

\* (KeyCode::Up, _) | (KeyCode::Char('k'), _)
KeyUp ==
    /\ pc = "handle"
    /\ IsUpKey(ev)
    /\ focus' = saturating_sub1(focus)
    /\ Continue
    /\ UNCHANGED <<letters, uppercase, symbols, numbers, password, strength,
                   status, status_until, clip, clip_arg, frame>>

\* (KeyCode::Down, _) | (KeyCode::Char('j'), _)
KeyDown ==
    /\ pc = "handle"
    /\ IsDownKey(ev)
    /\ focus' = focus_down(focus)
    /\ Continue
    /\ UNCHANGED <<letters, uppercase, symbols, numbers, password, strength,
                   status, status_until, clip, clip_arg, frame>>

\* (KeyCode::Left, _) | (KeyCode::Char('-'), _) | (KeyCode::Char('h'), _)
KeyLeft ==
    /\ pc = "handle"
    /\ IsLeftKey(ev)
    /\ update_value(-1)
    /\ Continue
    /\ UNCHANGED <<focus, password, strength, status, status_until, clip,
                   clip_arg, frame>>

\* (KeyCode::Right, _) | '+' | '=' | 'l'
KeyRight ==
    /\ pc = "handle"
    /\ IsRightKey(ev)
    /\ update_value(1)
    /\ Continue
    /\ UNCHANGED <<focus, password, strength, status, status_until, clip,
                   clip_arg, frame>>

\* app.generate_password(); terminal.draw(..)?
Regenerate ==
    /\ \E seed \in Seeds :
          App_generate_password(letters, uppercase, symbols, numbers, seed)
    /\ UNCHANGED <<letters, uppercase, symbols, numbers, focus, status,
                   status_until, clip, clip_arg>>
    /\ Redraw
    /\ UNCHANGED <<now, term, exit_code, events, attempted>>

\* copy_to_clipboard(&app.password) returning ok; the status and its expiry;
\* terminal.draw(..)?
Copy ==
    /\ \E ok \in BOOLEAN :
          /\ clip' = Some(ok)
          /\ clip_arg' = Some(password)
          /\ status' = IF ok THEN "Copied to clipboard."
                       ELSE "Clipboard unavailable."
    /\ status_until' = Some(now + CLIPBOARD_MESSAGE_DURATION)
    /\ UNCHANGED <<letters, uppercase, symbols, numbers, focus, password,
                   strength>>
    /\ Redraw
    /\ UNCHANGED <<now, term, exit_code, events, attempted>>

\* (KeyCode::Char('g'), _) | (KeyCode::Enter, _)
KeyGenerate ==
    /\ pc = "handle"
    /\ IsGenerateKey(ev)
    /\ IF focus >= FOCUS_FIELDS
       THEN CASE focus = FOCUS_GENERATE -> Regenerate
              [] focus = FOCUS_COPY -> Copy
              [] focus = FOCUS_QUIT -> Quit
              [] OTHER -> Continue /\ UNCHANGED <<app, clip, clip_arg, frame>>
       ELSE Regenerate

\* (KeyCode::Char('c'), _) | (KeyCode::Char('C'), _)
KeyCopy ==
    /\ pc = "handle"
    /\ IsCopyKey(ev)
    /\ Copy

\* (KeyCode::Char('r'), KeyModifiers::CONTROL)
KeyCtrlR ==
    /\ pc = "handle"
    /\ IsCtrlR(ev)
    /\ Regenerate

\* _ => {}
KeyOther ==
    /\ pc = "handle"
    /\ IsPress(ev)
    /\ ~IsListedKey(ev)
    /\ Continue
    /\ UNCHANGED <<app, clip, clip_arg, frame>>

-----------------------------------------------------------------------------
(* main: terminal restoration *)

\* disable_raw_mode()?
DisableRawMode ==
    /\ pc = "disable_raw"
    /\ \/ /\ term' = [term EXCEPT !.raw = FALSE]
          /\ pc' = "leave_alt"
          /\ UNCHANGED exit_code
       \/ MainErr /\ UNCHANGED term
    /\ attempted' = attempted \cup {"disable_raw_mode"}
    /\ UNCHANGED <<app, ev, clip, clip_arg, frame, now, result, events>>

\* execute!(terminal.backend_mut(), LeaveAlternateScreen)?
LeaveAlternateScreen ==
    /\ pc = "leave_alt"
    /\ \/ /\ term' = [term EXCEPT !.alt = FALSE]
          /\ pc' = "show_cursor"
          /\ UNCHANGED exit_code
       \/ MainErr /\ UNCHANGED term
    /\ attempted' = attempted \cup {"LeaveAlternateScreen"}
    /\ UNCHANGED <<app, ev, clip, clip_arg, frame, now, result, events>>

\* main ending with Ok(()) in place of result
ShowCursor_ignoring_result ==
    /\ pc = "show_cursor"
    /\ \/ /\ term' = [term EXCEPT !.cursor = TRUE]
          /\ pc' = "exit"
          /\ exit_code' = Some(0)
       \/ MainErr /\ UNCHANGED term
    /\ attempted' = attempted \cup {"show_cursor"}
    /\ UNCHANGED <<app, ev, clip, clip_arg, frame, now, result, events>>

\* terminal.show_cursor()?; result
ShowCursor ==
    /\ pc = "show_cursor"
    /\ \/ /\ term' = [term EXCEPT !.cursor = TRUE]
          /\ pc' = "exit"
          /\ exit_code' = IF result = "Ok" THEN Some(0) ELSE Some(1)
       \/ MainErr /\ UNCHANGED term
    /\ attempted' = attempted \cup {"show_cursor"}
    /\ UNCHANGED <<app, ev, clip, clip_arg, frame, now, result, events>>

\* main up to the loop
Setup == EnableRawMode \/ EnterAlternateScreen \/ TerminalNew \/ AppNew

\* the loop of run_app
Loop ==
    \/ Draw \/ ClearStatus \/ PollTimeout \/ PollErr \/ ReadEvent \/ Tick
    \/ NonKeyEvent \/ NotPress
    \/ KeyQuit \/ KeyUp \/ KeyDown \/ KeyLeft \/ KeyRight
    \/ KeyGenerate \/ KeyCopy \/ KeyCtrlR \/ KeyOther

\* main after the loop
Restore == DisableRawMode \/ LeaveAlternateScreen \/ ShowCursor

Next == Setup \/ Loop \/ Restore

Spec == Init /\ [][Next]_vars

-----------------------------------------------------------------------------
(* A session under way: the password of App::new() is still shown, the arrow
   keys have since moved the focus and the counts, and a turn of the loop
   without input has painted that state. *)

\* the default counts, and one count at MAX_VALUE with the others at
\* MIN_VALUE, for each of the four
SessionCounts ==
    { <<DEFAULT_LETTERS, DEFAULT_UPPERCASE, DEFAULT_SYMBOLS, DEFAULT_NUMBERS>> }
    \cup { [i \in 1..4 |-> IF i = k THEN MAX_VALUE ELSE MIN_VALUE] : k \in 1..4 }

InitSession ==
    /\ pc = "draw"
    /\ \E c \in SessionCounts :
          letters = c[1] /\ uppercase = c[2] /\ symbols = c[3] /\ numbers = c[4]
    /\ password = generate_password(DEFAULT_LETTERS, DEFAULT_UPPERCASE,
                                    DEFAULT_SYMBOLS, DEFAULT_NUMBERS,
                                    seed_from(0))
    /\ focus \in 0..FOCUS_QUIT
    /\ strength = check_password_strength(password)
    /\ status = ""
    /\ status_until = None
    /\ ev = NoEvent
    /\ clip = None
    /\ clip_arg = None
    /\ frame = Snapshot(letters, uppercase, symbols, numbers, focus, password,
                        strength, status)
    /\ now = 0
    /\ term = [raw |-> TRUE, alt |-> TRUE, cursor |-> FALSE]
    /\ result = "None"
    /\ exit_code = None
    /\ events = 0
    /\ attempted = {}

NextSession == Loop \/ Restore

SpecSession == InitSession /\ [][NextSession]_vars

-----------------------------------------------------------------------------
(* A session under way, with the progress of the process: run_app is
   sequential code, so whenever one of its steps can be taken one is taken
   (event::poll returns after 50 ms at the latest).  Nothing is assumed of
   the clock or of the user.  The counts are small: the progress condition
   has every regeneration evaluated again for each state and step. *)

\* the steps of run_app: every step of the loop but the passing of time
RunAppStep ==
    \/ Draw \/ ClearStatus \/ PollTimeout \/ PollErr \/ ReadEvent
    \/ NonKeyEvent \/ NotPress
    \/ KeyQuit \/ KeyUp \/ KeyDown \/ KeyLeft \/ KeyRight
    \/ KeyGenerate \/ KeyCopy \/ KeyCtrlR \/ KeyOther

\* a session in which the user has taken every count down to MIN_VALUE
InitLive ==
    /\ pc = "draw"
    /\ letters = MIN_VALUE /\ uppercase = MIN_VALUE
    /\ symbols = MIN_VALUE /\ numbers = MIN_VALUE
    /\ password = generate_password(DEFAULT_LETTERS, DEFAULT_UPPERCASE,
                                    DEFAULT_SYMBOLS, DEFAULT_NUMBERS,
                                    seed_from(0))
    /\ focus \in 0..FOCUS_QUIT
    /\ strength = check_password_strength(password)
    /\ status = ""
    /\ status_until = None
    /\ ev = NoEvent
    /\ clip = None
    /\ clip_arg = None
    /\ frame = Snapshot(letters, uppercase, symbols, numbers, focus, password,
                        strength, status)
    /\ now = 0
    /\ term = [raw |-> TRUE, alt |-> TRUE, cursor |-> FALSE]
    /\ result = "None"
    /\ exit_code = None
    /\ events = 0
    /\ attempted = {}

SpecLive == InitLive /\ [][NextSession]_vars /\ WF_vars(RunAppStep)

-----------------------------------------------------------------------------
(* generate_password applied to bounded inputs, as the tests of
   src/src/tests.rs apply it *)

InitGenerate ==
    /\ pc = "generate_password"
    /\ letters \in 0..MaxCount
    /\ uppercase \in 0..MaxCount
    /\ symbols \in 0..MaxCount
    /\ numbers \in 0..MaxCount
    /\ focus = 0
    /\ password = <<>>
    /\ strength = ""
    /\ status = ""
    /\ status_until = None
    /\ ev = NoEvent
    /\ clip = None
    /\ clip_arg = None
    /\ frame = NoFrame
    /\ now = 0
    /\ term = InitTerm
    /\ result = "None"
    /\ exit_code = None
    /\ events = 0
    /\ attempted = {}

\* let password = generate_password(letters, uppercase, symbols, numbers, &mut rng)
CallGenerate ==
    /\ pc = "generate_password"
    /\ \E seed \in Seeds :
          password' = generate_password(letters, uppercase, symbols, numbers,
                                        seed_from(seed))
    /\ pc' = "generated"
    /\ UNCHANGED <<letters, uppercase, symbols, numbers, focus, strength,
                   status, status_until, ev, clip, clip_arg, frame, now, term,
                   result, exit_code, events, attempted>>

\* self.strength = check_password_strength(&self.password).to_string()
ScoreGenerated ==
    /\ pc = "generated"
    /\ strength' = check_password_strength(password)
    /\ pc' = "stored"
    /\ UNCHANGED <<letters, uppercase, symbols, numbers, focus, password,
                   status, status_until, ev, clip, clip_arg, frame, now, term,
                   result, exit_code, events, attempted>>

NextGenerate == CallGenerate \/ ScoreGenerated

SpecGenerate == InitGenerate /\ [][NextGenerate]_vars

-----------------------------------------------------------------------------
(* check_password_strength applied to bounded inputs *)

\* 'A', 'a', '1', '!', '+', ' ', U+00E9 (two bytes in UTF-8) and U+0121 (two
\* bytes; its code point is 0x21 modulo 256)
SampleChars == {65, 97, 49, 33, 43, 32, 233, 289}
\* ' ', 'a' and U+00E9
FillerChars == {32, 97, 233}

ScoredStrings ==
    { core \o [i \in 1..k |-> f] :
        core \in UNION {[1..n -> SampleChars] : n \in 0..MaxCore},
        k \in 0..MaxPad, f \in FillerChars }

InitStrength ==
    /\ pc = "check_password_strength"
    /\ password \in ScoredStrings
    /\ letters = 0 /\ uppercase = 0 /\ symbols = 0 /\ numbers = 0
    /\ focus = 0
    /\ strength = ""
    /\ status = ""
    /\ status_until = None
    /\ ev = NoEvent
    /\ clip = None
    /\ clip_arg = None
    /\ frame = NoFrame
    /\ now = 0
    /\ term = InitTerm
    /\ result = "None"
    /\ exit_code = None
    /\ events = 0
    /\ attempted = {}

\* check_password_strength(password)
CallStrength ==
    /\ pc = "check_password_strength"
    /\ strength' = check_password_strength(password)
    /\ pc' = "scored"
    /\ UNCHANGED <<letters, uppercase, symbols, numbers, focus, password,
                   status, status_until, ev, clip, clip_arg, frame, now, term,
                   result, exit_code, events, attempted>>

SpecStrength == InitStrength /\ [][CallStrength]_vars

-----------------------------------------------------------------------------
(* Properties *)

\* the number of chars of pw in the code point range lo..hi
CountIn(pw, lo, hi) == Cardinality({i \in 1..Len(pw) : pw[i] >= lo /\ pw[i] <= hi})
\* the nine symbols ! # $ % & ( ) * +
SymbolChars == {33, 35, 36, 37, 38, 40, 41, 42, 43}
CountSymbols(pw) == Cardinality({i \in 1..Len(pw) : pw[i] \in SymbolChars})

\* the event in hand is a press of one of the keys
Pressed(codes) == ev.type = "Key" /\ ev.kind = "Press" /\ ev.code \in codes
\* a handler is about to run on an event
Handling(cond) == pc = "handle" /\ cond

UpEvent == Pressed({"Up", "k"})
DownEvent == Pressed({"Down", "j"})
IncrementEvent == Pressed({"Right", "+", "=", "l"})
CopyEvent == Pressed({"c", "C"}) \/ (Pressed({"g", "Enter"}) /\ focus = 5)
RegenerateEvent ==
    \/ Pressed({"g", "Enter"}) /\ focus \in 0..4
    \/ Pressed({"r"}) /\ ev.modifiers = "CONTROL"
QuitEvent == Pressed({"q", "Esc"}) \/ (Pressed({"g", "Enter"}) /\ focus = 6)

\* C1: in every session state each of the four counts is in [0, 64]
C1_CountsInRange ==
    /\ letters \in 0..64
    /\ uppercase \in 0..64
    /\ symbols \in 0..64
    /\ numbers \in 0..64

\* an increment was handled with focus on numbers and numbers already 64 (the
\* frame still shows the state the event met)
C1_Witness ==
    /\ pc = "draw" /\ IncrementEvent
    /\ focus = 3 /\ frame.focus = 3
    /\ frame.numbers = 64 /\ numbers = 64

\* C2: the focus is always in [0, 6]; up/'k' sets it to max(focus-1, 0),
\* down/'j' to min(focus+1, 6), and no other step changes it
C2_FocusClamped ==
    /\ [](focus \in 0..6)
    /\ [][ /\ Handling(UpEvent) => focus' = IF focus - 1 > 0 THEN focus - 1 ELSE 0
           /\ Handling(DownEvent) => focus' = IF focus + 1 < 6 THEN focus + 1 ELSE 6
           /\ ~Handling(UpEvent \/ DownEvent) => focus' = focus ]_vars

\* a down event was handled with the focus already on QuitAction
C2_Witness ==
    /\ pc = "draw" /\ DownEvent
    /\ frame.focus = 6 /\ focus = 6

\* C3: the length of the generated password is letters+uppercase+symbols+numbers,
\* and the password is empty when all four counts are 0
C3_LengthIsSum ==
    pc = "generated" =>
        /\ Len(password) = letters + uppercase + symbols + numbers
        /\ str_len(password) = letters + uppercase + symbols + numbers
        /\ (letters = 0 /\ uppercase = 0 /\ symbols = 0 /\ numbers = 0
              => password = <<>>)

\* generate_password(4, 3, 2, 5, ..) has returned 14 characters
C3_Witness ==
    /\ pc = "generated"
    /\ letters = 4 /\ uppercase = 3 /\ symbols = 2 /\ numbers = 5
    /\ Len(password) = 14

\* C4: the generated password holds exactly `letters` chars of a-z, `uppercase`
\* of A-Z, `symbols` of the nine symbols and `numbers` of 0-9, and nothing else
C4_ExactComposition ==
    pc = "generated" =>
        /\ CountIn(password, 97, 122) = letters
        /\ CountIn(password, 65, 90) = uppercase
        /\ CountSymbols(password) = symbols
        /\ CountIn(password, 48, 57) = numbers
        /\ \A i \in 1..Len(password) :
              \/ password[i] \in 97..122 \/ password[i] \in 65..90
              \/ password[i] \in 48..57 \/ password[i] \in SymbolChars

\* a password of all four categories whose shuffle has put a symbol in front
\* of the letters, which were drawn first
C4_Witness ==
    /\ pc = "generated"
    /\ letters = 2 /\ uppercase = 2 /\ symbols = 2 /\ numbers = 2
    /\ Len(password) = 8
    /\ password[1] \in SymbolChars

\* the criteria as C5 states them: a symbol is one of the nine characters
ClaimedCriteria(pw) ==
    B2N(str_len(pw) >= 10)
    + B2N(\E i \in 1..Len(pw) : pw[i] \in 65..90)
    + B2N(\E i \in 1..Len(pw) : pw[i] \in 97..122)
    + B2N(\E i \in 1..Len(pw) : pw[i] \in 48..57)
    + B2N(\E i \in 1..Len(pw) : pw[i] \in SymbolChars)

ClaimedStrength(pw) ==
    CASE ClaimedCriteria(pw) = 5 -> "Strong"
      [] ClaimedCriteria(pw) = 4 -> "Moderate"
      [] ClaimedCriteria(pw) = 3 -> "Weak"
      [] OTHER -> "Do not use!!!!"

\* C5: for every string the strength is Strong, Moderate, Weak or "Do not use"
\* as the number of satisfied criteria is 5, 4, 3 or at most 2
C5_StrengthByCriteria ==
    pc = "scored" => strength = ClaimedStrength(password)

\* C6: the expiry check clears status and expiry together when it observes
\* now >= expiry, leaves both alone when it observes now < expiry, and only
\* that check or a copy action changes either
C6_StatusExpiry ==
    [][ /\ (pc = "clear" /\ status_until # None /\ now >= status_until[1])
             => (status' = "" /\ status_until' = None)
        /\ (pc = "clear" /\ status_until # None /\ now < status_until[1])
             => UNCHANGED <<status, status_until>>
        /\ (status' # status \/ status_until' # status_until)
             => (pc = "clear" \/ Handling(CopyEvent)) ]_vars

\* a status set by a copy has been cleared by the check, at or after its expiry
C6_Witness ==
    /\ pc = "poll"
    /\ clip # None
    /\ status = "" /\ status_until = None
    /\ now >= 2

\* C7: a copy action hands the current password to the clipboard, sets the
\* status by the clipboard's answer and the expiry to now + 2 s, leaves counts,
\* focus, password and strength alone, and does not quit the session (the loop
\* goes on, unless the redraw that follows fails with an I/O error)
C7_CopyAction ==
    [][ Handling(CopyEvent) =>
          /\ clip_arg' = <<password>>
          /\ clip' \in {<<TRUE>>, <<FALSE>>}
          /\ status' = IF clip' = <<TRUE>> THEN "Copied to clipboard."
                       ELSE "Clipboard unavailable."
          /\ status_until' = <<now + 2>>
          /\ UNCHANGED <<letters, uppercase, symbols, numbers, focus, password,
                         strength>>
          /\ result' # "Ok"
          /\ (pc' = "draw" \/ (pc' = "disable_raw" /\ result' = "Err")) ]_vars

\* Enter on CopyAction, the second event of the session, met a failing
\* clipboard: the status and expiry are set and the loop goes on
C7_Witness ==
    /\ pc = "draw" /\ Pressed({"Enter"}) /\ focus = 5
    /\ clip = <<FALSE>>
    /\ status = "Clipboard unavailable."
    /\ status_until = <<now + 2>>
    /\ events = 2
    /\ result = "None"

\* C8: a regenerate action replaces the password by one as long as the sum of
\* the counts then held and the strength by the score of that password, and
\* leaves counts, focus, status and expiry alone
C8_RegenerateAction ==
    [][ Handling(RegenerateEvent) =>
          /\ Len(password') = letters + uppercase + symbols + numbers
          /\ strength' = check_password_strength(password')
          /\ UNCHANGED <<letters, uppercase, symbols, numbers, focus, status,
                         status_until>> ]_vars

\* Ctrl+r on QuitAction has replaced the 14 characters of App::new() by 64
C8_Witness ==
    /\ pc = "draw" /\ Pressed({"r"}) /\ ev.modifiers = "CONTROL"
    /\ focus = 6
    /\ letters + uppercase + symbols + numbers = 64
    /\ Len(password) = 64
    /\ frame.password = password

\* C9: run_app returns Ok exactly on a press of 'q' or Esc, or of 'g'/Enter
\* on QuitAction; that step changes nothing of the session state
C9_QuitExactly ==
    [][ /\ (result' = "Ok" /\ result # "Ok") <=> Handling(QuitEvent)
        /\ Handling(QuitEvent) =>
             /\ pc' = "disable_raw"
             /\ UNCHANGED <<letters, uppercase, symbols, numbers, focus,
                            password, strength, status, status_until>> ]_vars

\* the session has ended by its first event with the focus on QuitAction
C9_Witness ==
    /\ pc = "disable_raw" /\ result = "Ok"
    /\ focus = 6
    /\ events = 1

\* C10: App::new() yields focus 0, counts 6, 2, 2, 4, a password of 14
\* characters generated from those counts with its strength, an empty status
\* and no expiry
C10_InitialState ==
    [][ pc = "app_new" =>
          /\ focus' = 0
          /\ letters' = 6 /\ uppercase' = 2 /\ symbols' = 2 /\ numbers' = 4
          /\ Len(password') = 14
          /\ CountIn(password', 97, 122) = 6
          /\ CountIn(password', 65, 90) = 2
          /\ CountSymbols(password') = 2
          /\ CountIn(password', 48, 57) = 4
          /\ strength' = check_password_strength(password')
          /\ status' = ""
          /\ status_until' = None ]_vars

\* the state App::new() leaves, before the first frame is painted
C10_Witness ==
    /\ pc = "draw" /\ frame = NoFrame
    /\ focus = 0
    /\ Len(password) = 14
    /\ strength = "Strong"

\* the three restoration calls of main
RestoreCalls == {"disable_raw_mode", "LeaveAlternateScreen", "show_cursor"}
\* raw mode has been entered: it is on, or a call to leave it has been made
RawModeEntered == term.raw \/ attempted # {}

\* C11: whenever main has terminated after raw mode was entered, disable raw
\* mode, leave the alternate screen and show the cursor have each been attempted
C11_RestoreAttempted ==
    (pc = "exit" /\ RawModeEntered) => attempted = RestoreCalls

\* C12: whenever the loop is at the input poll, the frame painted last shows
\* the current counts, focus, password, strength and status
C12_FrameCurrentAtPoll ==
    pc = "poll" =>
        frame = Snapshot(letters, uppercase, symbols, numbers, focus, password,
                         strength, status)

\* C13 as stated: a session that set up successfully (run_app was entered and
\* has returned) exits with code 0, whatever failed in the loop or in the
\* restoration; a clean quit exits with code 0
C13_ExitCodeBySetup ==
    pc = "exit" =>
        /\ result = "Ok" => exit_code = <<0>>
        /\ exit_code # <<0>> => result = "None"

\* C13, amended: the exit code is 0 exactly when the loop ended by a quit and
\* the three restoration calls succeeded, and is 1 otherwise (a failed setup
\* call, an I/O error returned by the loop, or a failed restoration call)
C13_ExitCode ==
    pc = "exit" =>
        /\ exit_code \in {<<0>>, <<1>>}
        /\ exit_code = <<0>> <=>
              (result = "Ok" /\ attempted = RestoreCalls /\ term = InitTerm)

\* a session quit by its first event has exited with code 0, the terminal
\* restored
C13_Witness ==
    /\ pc = "exit" /\ result = "Ok"
    /\ events = 1
    /\ term = InitTerm
    /\ exit_code = <<0>>

\* C14: in every session state the stored strength is the score of the stored
\* password: it is so when the session starts, and every step that writes the
\* password or the strength leaves the strength the score of the password
C14_StrengthOfPassword ==
    /\ strength = check_password_strength(password)
    /\ [][ (password' # password \/ strength' # strength)
             => strength' = check_password_strength(password') ]_vars

\* 'g' on a count field has replaced the Strong password of App::new() by 64
\* characters of one category, and the strength with it
C14_Witness ==
    /\ pc = "draw" /\ Pressed({"g"})
    /\ focus \in 0..3
    /\ Len(password) = 64
    /\ frame.password = password
    /\ strength = "Do not use!!!!"

DecrementEvent == Pressed({"Left", "-", "h"})
\* clamp(x, 0, 64)
Clamp64(x) == IF x < 0 THEN 0 ELSE IF x > 64 THEN 64 ELSE x
\* count i (the count under the focus, if any) moves by delta, clamped; the
\* other counts stay
CountStep(delta) ==
    /\ letters' = IF focus = 0 THEN Clamp64(letters + delta) ELSE letters
    /\ uppercase' = IF focus = 1 THEN Clamp64(uppercase + delta) ELSE uppercase
    /\ symbols' = IF focus = 2 THEN Clamp64(symbols + delta) ELSE symbols
    /\ numbers' = IF focus = 3 THEN Clamp64(numbers + delta) ELSE numbers

\* C15: a decrement (increment) event with the focus on field i changes only
\* count i, to clamp(count - 1, 0, 64) (clamp(count + 1, 0, 64)); focus,
\* password, strength, status and expiry stay; on an action focus nothing changes
C15_CountEvents ==
    [][ /\ Handling(DecrementEvent) => CountStep(-1)
        /\ Handling(IncrementEvent) => CountStep(1)
        /\ Handling(DecrementEvent \/ IncrementEvent) =>
              UNCHANGED <<focus, password, strength, status, status_until>>
        /\ (Handling(DecrementEvent \/ IncrementEvent) /\ focus \in 4..6) =>
              UNCHANGED <<letters, uppercase, symbols, numbers>> ]_vars

\* 'h' with the focus on the uppercase count has taken it from 64 to 63; the
\* password shown is still the one of the frame before
C15_Witness ==
    /\ pc = "draw" /\ Pressed({"h"})
    /\ focus = 1
    /\ frame.uppercase = 64 /\ uppercase = 63
    /\ password = frame.password

\* the event in hand is one of the listed transitions: a press of a quit,
\* focus, count, generate or copy key, or of 'r' with Control
ListedEvent ==
    \/ Pressed({"q", "Esc", "Up", "k", "Down", "j", "Left", "-", "h", "Right",
                "+", "=", "l", "g", "Enter", "c", "C"})
    \/ Pressed({"r"}) /\ ev.modifiers = "CONTROL"

\* C16: an input event that is not a listed transition (a key event that is
\* not a press, an event that is not a key event, an unlisted key, 'r'
\* without Control) leaves counts, focus, password, strength, status and
\* expiry as they are, and the loop goes on
C16_OtherInputIgnored ==
    [][ (pc = "handle" /\ ~ListedEvent) =>
          /\ UNCHANGED <<letters, uppercase, symbols, numbers, focus, password,
                         strength, status, status_until>>
          /\ pc' = "draw"
          /\ result' = "None" ]_vars

\* the release of 'q' was handled as the second event, after a copy: the
\* status of the copy stands and the session goes on
C16_Witness ==
    /\ pc = "draw"
    /\ ev.type = "Key" /\ ev.code = "q" /\ ev.kind = "Release"
    /\ events = 2
    /\ status = "Copied to clipboard."
    /\ result = "None"

\* the loop keeps iterating: no render, poll or read fails and the session is
\* not quit
LoopGoesOn == [](result = "None")
\* time advances past the expiry of whatever status is set
TimePassesExpiry == []<>(status_until = None \/ now >= status_until[1])

\* C17: if the loop keeps iterating and time advances past the expiry, a
\* status set by a clipboard action is eventually cleared (once no further
\* clipboard action sets it again), with or without further input
C17_StatusEventuallyCleared ==
    (LoopGoesOn /\ TimePassesExpiry) => ((status # "") ~> (status = ""))

\* the status of a copy, the only event of the session, has been cleared at
\* its expiry and the loop has come round to its next render
C17_Witness ==
    /\ pc = "draw"
    /\ events = 1
    /\ clip = <<TRUE>>
    /\ frame.status = "Copied to clipboard."
    /\ status = "" /\ status_until = None
    /\ now = 2

\* C18: in every session state the status is non-empty exactly when an expiry
\* is recorded
C18_StatusIffExpiry == (status # "") <=> (status_until # None)

\* 'C', the second event of the session, has set status and expiry one second
\* into the session, and the frame shows the message
C18_Witness ==
    /\ pc = "draw" /\ Pressed({"C"})
    /\ events = 2
    /\ status = "Copied to clipboard." /\ frame.status = status
    /\ status_until = <<3>>

\* the number of criteria as the counts give it
CriteriaOfCounts ==
    B2N(letters + uppercase + symbols + numbers >= 10)
    + B2N(uppercase >= 1) + B2N(letters >= 1)
    + B2N(numbers >= 1) + B2N(symbols >= 1)

\* C19: the strength stored after a generation is the rating of the number of
\* criteria the counts give, whatever was drawn; counts 6, 2, 2, 4 are rated
\* Strong, and a generation with a count of 0 is never rated Strong
C19_StrengthByCounts ==
    pc = "stored" =>
        /\ criteria_met(password) = CriteriaOfCounts
        /\ strength = CASE CriteriaOfCounts = 5 -> "Strong"
                         [] CriteriaOfCounts = 4 -> "Moderate"
                         [] CriteriaOfCounts = 3 -> "Weak"
                         [] OTHER -> "Do not use!!!!"
        /\ (letters = 6 /\ uppercase = 2 /\ symbols = 2 /\ numbers = 4)
              => strength = "Strong"
        /\ (letters = 0 \/ uppercase = 0 \/ symbols = 0 \/ numbers = 0)
              => strength # "Strong"

\* twelve characters without a lower-case letter are stored as Moderate
C19_Witness ==
    /\ pc = "stored"
    /\ letters = 0 /\ uppercase = 5 /\ symbols = 3 /\ numbers = 4
    /\ Len(password) = 12
    /\ strength = "Moderate"

\* C20: for every string scored, also one with code points above 255, the
\* symbol criterion is met exactly when the string holds one of the nine
\* characters ! # $ % & ( ) * +
C20_SymbolCriterion ==
    pc = "scored" =>
        (symbol_criteria(password) <=>
            \E i \in 1..Len(password) : password[i] \in SymbolChars)

====
